---- MODULE Spec2Model ----
(***************************************************************************)
(* django-image-assets: asset type registry queries, the attachment set   *)
(* reconciler (AssetFormSet.clean), the unique_active_asset constraint    *)
(* and the soft-delete / purge / recover lifecycle of Asset and           *)
(* DeletedAsset rows over a relational store and a blob store.            *)
(***************************************************************************)
EXTENDS Integers, Sequences, FiniteSets, TLC

\* ------------------------------------------------------------------ bounds
\* primary keys handed out by the Asset table's sequence
MaxAssets == 2
\* primary keys handed out by the DeletedAsset table's sequence
MaxDeleted == 1
\* extra (new) rows the presentation layer submits in one formset
MaxNew == 1
\* stored assets in the states the registry queries are evaluated in
MaxStored == 1
\* rows of a candidate set handed to the reconciler on its own
MaxRows == 2

\* ------------------------------------------------------------ the universe
\* no asset type chosen (an empty asset_type field)
NoType == "none"
\* None as the argument of the registry queries
None == [kind |-> "None", pk |-> 0, class |-> FALSE]
Types == {"t1", "t2"}
Kinds == {"video", "article"}
Video1 == [kind |-> "video", pk |-> 1]
Video2 == [kind |-> "video", pk |-> 2]
Hosts == {Video1, Video2}
\* an instance of a host kind that has not been saved yet: pk is None
Unsaved(k) == [kind |-> k, pk |-> 0]

VARIABLES
    required_for,   \* AssetType.required_for: type -> set of host kinds
    allowed_for,    \* AssetType.allowed_for: type -> set of host kinds
    hosts,          \* saved host instances
    assets,         \* rows of the Asset table
    deleted,        \* rows of the DeletedAsset table
    storage,        \* blob store: names of the files it holds
    deleteCalls,    \* number of storage.delete() invocations per blob name
    nextAsset,      \* Asset primary key sequence
    nextDeleted,    \* DeletedAsset primary key sequence
    staleDeleted,   \* DeletedAsset handles whose row recover() removed
    pending,        \* purge or recover that is between its two steps
    last,           \* the operation that ran last, with its result
    txn,            \* the two concurrent reconcile-and-save transactions
    upload          \* the FieldFile handed to the content validator

vars == <<required_for, allowed_for, hosts, assets, deleted, storage,
          deleteCalls, nextAsset, nextDeleted, staleDeleted,
          pending, last, txn, upload>>

registryVars == <<required_for, allowed_for>>
idVars == <<nextAsset, nextDeleted>>

\* ---------------------------------------------------------------- helpers
\* names of uploaded files: the storage gives every upload a fresh name,
\* here the primary key of the row the file is uploaded for
Blobs == 1..(MaxAssets + 1)

RECURSIVE SetToSeqById(_)
\* rows of a queryset ordered by primary key
SetToSeqById(S) ==
    IF S = {} THEN <<>>
    ELSE LET m == CHOOSE x \in S : \A y \in S : x.id <= y.id
         IN <<m>> \o SetToSeqById(S \ {m})

\* ------------------------------------------------------ registry queries
\* get_for_model that filters on required_for alone
GetForModel_required_only(model) ==
    IF model = None THEN Types
    ELSE {t \in Types : model.kind \in required_for[t]}

\* AssetTypeManager.get_for_model
GetForModel(model) ==
    IF model = None THEN Types
    ELSE {t \in Types : model.kind \in required_for[t]
                        \/ model.kind \in allowed_for[t]}

\* the subquery without its active=True filter
ExistingTypes_any_activity(store, instance) ==
    {a.asset_type : a \in {b \in store : /\ b.content_type = instance.kind
                                         /\ b.object_id = instance.pk}}

\* the subquery of get_required: asset types of the stored active assets
ExistingActiveTypes(store, instance) ==
    {a.asset_type : a \in {b \in store : /\ b.active
                                         /\ b.content_type = instance.kind
                                         /\ b.object_id = instance.pk}}

\* AssetTypeManager.get_required over a given Asset table.  instance is
\* None, a model class ([class |-> TRUE]) or an instance (pk = 0: pk is None)
GetRequiredIn(store, instance) ==
    IF instance = None THEN Types
    ELSE LET required == {t \in Types : instance.kind \in required_for[t]}
         IN IF instance.pk = 0 \/ instance.class
            THEN required
            ELSE required \ ExistingActiveTypes(store, instance)

GetRequired(instance) == GetRequiredIn(assets, instance)

\* a model class / a model instance as the argument of the queries
Class(k) == [kind |-> k, pk |-> -1, class |-> TRUE]
Instance(h) == [kind |-> h.kind, pk |-> h.pk, class |-> FALSE]

\* ------------------------------------------------- attachment set reconciler
\* one entry of AssetFormSet.cleaned_data: id = 0 for a new (extra) row,
\* asset_type = NoType for a row with no type chosen
Row(id, t, act, del) ==
    [id |-> id, asset_type |-> t, active |-> act, delete |-> del]

RECURSIVE CleanWalk_add_first(_, _, _, _)
\* the loop with the type added to added_asset_types before the
\* membership test
CleanWalk_add_first(cleaned_data, i, added_asset_types, duplicated_asset_types) ==
    IF i > Len(cleaned_data)
    THEN [added |-> added_asset_types, duplicated |-> duplicated_asset_types]
    ELSE LET asset_data == cleaned_data[i]
         IN IF ~asset_data.active \/ asset_data.asset_type = NoType
            THEN CleanWalk_add_first(cleaned_data, i + 1, added_asset_types,
                                     duplicated_asset_types)
            ELSE CleanWalk_add_first(
                     cleaned_data, i + 1,
                     added_asset_types \cup {asset_data.asset_type},
                     duplicated_asset_types \cup {asset_data.asset_type})

RECURSIVE CleanWalk_inverted(_, _, _, _)
\* the loop with the active test inverted: "if active: continue"
CleanWalk_inverted(cleaned_data, i, added_asset_types, duplicated_asset_types) ==
    IF i > Len(cleaned_data)
    THEN [added |-> added_asset_types, duplicated |-> duplicated_asset_types]
    ELSE LET asset_data == cleaned_data[i]
         IN IF asset_data.active \/ asset_data.asset_type = NoType
            THEN CleanWalk_inverted(cleaned_data, i + 1, added_asset_types,
                                    duplicated_asset_types)
            ELSE CleanWalk_inverted(
                     cleaned_data, i + 1,
                     added_asset_types \cup {asset_data.asset_type},
                     IF asset_data.asset_type \in added_asset_types
                     THEN duplicated_asset_types
                              \cup {asset_data.asset_type}
                     ELSE duplicated_asset_types)

RECURSIVE CleanWalk(_, _, _, _)
\* the loop of AssetFormSet.clean over cleaned_data
CleanWalk(cleaned_data, i, added_asset_types, duplicated_asset_types) ==
    IF i > Len(cleaned_data)
    THEN [added |-> added_asset_types, duplicated |-> duplicated_asset_types]
    ELSE LET asset_data == cleaned_data[i]
         IN IF ~asset_data.active
            THEN CleanWalk(cleaned_data, i + 1, added_asset_types,
                           duplicated_asset_types)
            ELSE IF asset_data.asset_type = NoType
            THEN CleanWalk(cleaned_data, i + 1, added_asset_types,
                           duplicated_asset_types)
            ELSE CleanWalk(cleaned_data, i + 1,
                           added_asset_types \cup {asset_data.asset_type},
                           IF asset_data.asset_type \in added_asset_types
                           THEN duplicated_asset_types
                                    \cup {asset_data.asset_type}
                           ELSE duplicated_asset_types)

\* AssetFormSet.clean for a valid formset, over a given Asset table: the
\* asset types named by the two ValidationErrors it raises
CleanIn(store, instance, cleaned_data) ==
    LET w == CleanWalk(cleaned_data, 1, {}, {})
        required_asset_types == GetRequiredIn(store, instance)
    IN [missing |-> required_asset_types \ w.added,
        duplicated |-> w.duplicated]

Clean(instance, cleaned_data) == CleanIn(assets, instance, cleaned_data)

\* the list of errors clean raises
Errors(c) ==
    (IF c.missing # {} THEN {"missing"} ELSE {})
        \cup (IF c.duplicated # {} THEN {"duplicated"} ELSE {})

\* AssetFormSet.add_fields: the asset_type choice of a form is limited to
\* get_for_model(instance); rows marked for deletion and blank extra rows
\* are not validated
IsBlank(row) == row.id = 0 /\ row.asset_type = NoType
RowValid(instance, row) ==
    \/ row.delete
    \/ IsBlank(row)
    \/ row.asset_type \in GetForModel(instance)

FormsValid(instance, rows) ==
    \A i \in 1..Len(rows) : RowValid(instance, rows[i])

\* ------------------------------------------------------------- the store
SameTriple(a, b) ==
    /\ a.asset_type = b.asset_type
    /\ a.content_type = b.content_type
    /\ a.object_id = b.object_id

\* the constraint with its condition written as Q(active=False)
UniqueActiveAsset_inactive(store) ==
    \A a, b \in store :
        (~a.active /\ ~b.active /\ SameTriple(a, b)) => a.id = b.id

\* Asset.Meta.constraints: unique_active_asset, a unique index on
\* (asset_type, content_type, object_id) over the rows with active = True
UniqueActiveAsset(store) ==
    \A a, b \in store : (a.active /\ b.active /\ SameTriple(a, b)) => a.id = b.id

AssetRow(id, image, t, act, h) ==
    [id |-> id, image |-> image, asset_type |-> t, active |-> act,
     content_type |-> h.kind, object_id |-> h.pk]

DeletedRow(id, a) ==
    [id |-> id, image |-> a.image, asset_type |-> a.asset_type,
     content_type |-> a.content_type, object_id |-> a.object_id]

NoPending == [kind |-> "none"]

\* no file is under validation
NoUpload == [name |-> "none"]

Txns == {1, 2}
IdleTxn == [pc |-> "idle"]
NoTxn == [T \in Txns |-> IdleTxn]

\* the database as one transaction sees it, with the blob store beside it;
\* ok = FALSE once a statement raised IntegrityError
Db == [assets |-> assets, deleted |-> deleted, storage |-> storage,
       nextAsset |-> nextAsset, nextDeleted |-> nextDeleted, ok |-> TRUE]

\* the receiver not connected to pre_delete: no DeletedAsset is created
move_asset_file_not_connected(db, instance) == db

\* pre_delete receiver of Asset: the file moves to a new DeletedAsset row
move_asset_file_to_deleted_asset(db, instance) ==
    [db EXCEPT !.deleted = @ \cup {DeletedRow(db.nextDeleted, instance)},
               !.nextDeleted = @ + 1]

\* Asset.delete(): the pre_delete signal, then the row is removed
DeleteIn(db, instance) ==
    LET moved == move_asset_file_to_deleted_asset(db, instance)
    IN [moved EXCEPT !.assets = {a \in @ : a.id # instance.id}]

\* INSERT or UPDATE of one Asset row, checked against unique_active_asset
WriteIn(db, row) ==
    LET written == {a \in db.assets : a.id # row.id} \cup {row}
    IN IF UniqueActiveAsset(written)
       THEN [db EXCEPT !.assets = written]
       ELSE [db EXCEPT !.ok = FALSE]

\* Asset.objects.create with an uploaded file: the file is saved to the
\* blob store, then the row is inserted
CreateIn(db, t, act, h) ==
    LET stored == [db EXCEPT !.storage = @ \cup {db.nextAsset},
                             !.nextAsset = @ + 1]
    IN WriteIn(stored, AssetRow(db.nextAsset, db.nextAsset, t, act, h))

\* formset.save() of one row: existing rows marked for deletion are deleted,
\* changed existing rows are updated, non-blank new rows are created
SaveRow(db, h, row) ==
    IF row.id # 0
    THEN LET obj == CHOOSE a \in db.assets : a.id = row.id
         IN IF row.delete THEN DeleteIn(db, obj)
            ELSE IF row.asset_type # obj.asset_type \/ row.active # obj.active
            THEN WriteIn(db, [obj EXCEPT !.asset_type = row.asset_type,
                                         !.active = row.active])
            ELSE db
    ELSE IF IsBlank(row) \/ row.delete THEN db
    ELSE CreateIn(db, row.asset_type, row.active, h)

RECURSIVE SaveRows(_, _, _, _)
\* formset.save(): the rows are saved one statement at a time, in the
\* order of the forms, until one fails
SaveRows(db, h, rows, i) ==
    IF i > Len(rows) \/ ~db.ok THEN db
    ELSE SaveRows(SaveRow(db, h, rows[i]), h, rows, i + 1)

\* --------------------------------------------------------------- Init
Init ==
    /\ required_for = [t \in Types |-> IF t = "t1" THEN {"video"} ELSE {}]
    /\ allowed_for = [t \in Types |-> {}]
    /\ hosts = {Video1}
    /\ assets = {}
    /\ deleted = {}
    /\ storage = {}
    /\ deleteCalls = [b \in Blobs |-> 0]
    /\ nextAsset = 1
    /\ nextDeleted = 1
    /\ staleDeleted = {}
    /\ pending = NoPending
    /\ last = [op |-> "init"]
    /\ txn = NoTxn
    /\ upload = NoUpload

\* ------------------------------------------------------------ operations
\* ImageAssetsMixin.set_allowed_for(asset_type, model)
SetAllowedFor(t, k) ==
    /\ allowed_for[t] # {k}
    /\ allowed_for' = [allowed_for EXCEPT ![t] = {k}]
    /\ last' = [op |-> "set_allowed_for"]
    /\ UNCHANGED <<required_for, hosts, assets, deleted, storage, deleteCalls,
                   idVars, staleDeleted, pending, txn, upload>>

\* asset_type.required_for.clear()
ClearRequiredFor(t) ==
    /\ required_for[t] # {}
    /\ required_for' = [required_for EXCEPT ![t] = {}]
    /\ last' = [op |-> "clear_required_for"]
    /\ UNCHANGED <<allowed_for, hosts, assets, deleted, storage, deleteCalls,
                   idVars, staleDeleted, pending, txn, upload>>

\* attach: ImageAssetsMixin.create_asset, i.e. Asset.objects.create
Attach(h, t, act) ==
    /\ h \in hosts
    /\ nextAsset <= MaxAssets
    /\ LET db == CreateIn(Db, t, act, h)
       IN /\ assets' = db.assets
          /\ storage' = db.storage
          /\ nextAsset' = db.nextAsset
          /\ last' = [op |-> "attach",
                      result |-> IF db.ok THEN "created"
                                 ELSE "IntegrityError"]
    /\ UNCHANGED <<registryVars, hosts, deleted, deleteCalls, nextDeleted,
                   staleDeleted, pending, txn, upload>>

\* asset.delete()
DeleteAsset(a) ==
    /\ a \in assets
    /\ nextDeleted <= MaxDeleted
    /\ LET db == DeleteIn(Db, a)
       IN /\ assets' = db.assets
          /\ deleted' = db.deleted
          /\ nextDeleted' = db.nextDeleted
    /\ last' = [op |-> "delete", handle |-> a]
    /\ UNCHANGED <<registryVars, hosts, storage, deleteCalls, nextAsset,
                   staleDeleted, pending, txn, upload>>

\* the receiver not connected to pre_delete: the file is never deleted
delete_asset_file_not_connected(d) ==
    UNCHANGED <<storage, deleteCalls>>

\* pre_delete receiver of DeletedAsset: instance.image.delete(save=False),
\* the first step of deleted.delete()
delete_asset_file_for_deleted_asset(d) ==
    /\ storage' = storage \ {d.image}
    /\ deleteCalls' = [deleteCalls EXCEPT ![d.image] = @ + 1]

\* purge, first step: the pre_delete signal of deleted.delete()
PurgeSignal(d) ==
    /\ pending = NoPending
    /\ d \in deleted \cup staleDeleted
    /\ delete_asset_file_for_deleted_asset(d)
    /\ pending' = [kind |-> "purge", handle |-> d]
    /\ last' = [op |-> "purge_signal", handle |-> d]
    /\ UNCHANGED <<registryVars, hosts, assets, deleted, idVars, staleDeleted,
                   txn, upload>>

\* purge, second step: the DeletedAsset row is removed
PurgeRow ==
    /\ pending.kind = "purge"
    /\ deleted' = deleted \ {pending.handle}
    /\ staleDeleted' = staleDeleted \ {pending.handle}
    /\ pending' = NoPending
    /\ last' = [op |-> "purge", handle |-> pending.handle]
    /\ UNCHANGED <<registryVars, hosts, assets, storage, deleteCalls, idVars,
                   txn, upload>>

\* recover() does not follow the delete() that created its DeletedAsset
NoRoundTrip == [asset |-> "none"]

\* recover() of d called right after the asset.delete() that created d: the
\* deleted asset, with the other assets and the blob store of that moment
RoundTrip(d) ==
    IF /\ last.op = "delete"
       /\ d \in deleted
       /\ d = DeletedRow(nextDeleted - 1, last.handle)
    THEN [asset |-> last.handle, others |-> assets, storage |-> storage]
    ELSE NoRoundTrip

\* recover() without active=False: the field default (True) applies
RecoveredAsset_default_active(id, d) ==
    [id |-> id, image |-> d.image, asset_type |-> d.asset_type,
     active |-> TRUE, content_type |-> d.content_type,
     object_id |-> d.object_id]

\* the row that recover() creates for the DeletedAsset d
RecoveredAsset(id, d) ==
    [id |-> id, image |-> d.image, asset_type |-> d.asset_type,
     active |-> FALSE, content_type |-> d.content_type,
     object_id |-> d.object_id]

\* DeletedAsset.recover(), first statement: Asset.objects.create(...,
\* image=self.image, active=False)
RecoverCreate(d) ==
    /\ pending = NoPending
    /\ d \in deleted \cup staleDeleted
    /\ nextAsset <= MaxAssets
    /\ LET asset == RecoveredAsset(nextAsset, d)
       IN /\ assets' = assets \cup {asset}
          /\ pending' = [kind |-> "recover", handle |-> d, asset |-> asset,
                         trip |-> RoundTrip(d)]
    /\ nextAsset' = nextAsset + 1
    /\ last' = [op |-> "recover_create", handle |-> d]
    /\ UNCHANGED <<registryVars, hosts, deleted, storage, deleteCalls,
                   nextDeleted, staleDeleted, txn, upload>>

\* DeletedAsset.recover(), second statement: qs._raw_delete(qs.db), which
\* sends no signal and leaves self.pk set; the new Asset is returned
RecoverRawDelete ==
    /\ pending.kind = "recover"
    /\ deleted' = {d \in deleted : d.id # pending.handle.id}
    /\ staleDeleted' = staleDeleted \cup {pending.handle}
    /\ pending' = NoPending
    /\ last' = [op |-> "recover", handle |-> pending.handle,
                result |-> pending.asset,
                trip |-> IF last.op = "recover_create" THEN pending.trip
                         ELSE NoRoundTrip]
    /\ UNCHANGED <<registryVars, hosts, assets, storage, deleteCalls, idVars,
                   txn, upload>>

\* ------------------------------------------------- reconcile-and-save
\* what the presentation layer may do to a stored row of the formset
EditChoices == {"keep", "toggle", "retype", "delete"}

OtherType(t) == CHOOSE u \in Types : u # t

EditRow(a, e) ==
    CASE e = "keep" -> Row(a.id, a.asset_type, a.active, FALSE)
      [] e = "toggle" -> Row(a.id, a.asset_type, ~a.active, FALSE)
      [] e = "retype" -> Row(a.id, OtherType(a.asset_type), a.active, FALSE)
      [] e = "delete" -> Row(a.id, a.asset_type, a.active, TRUE)

BlankRow == Row(0, NoType, FALSE, FALSE)
NewRows == {BlankRow} \cup {Row(0, t, act, FALSE) : t \in Types, act \in BOOLEAN}

\* the stored assets of a host, in the order of the formset's queryset
HostAssets(store, h) ==
    SetToSeqById({a \in store : a.content_type = h.kind /\ a.object_id = h.pk})

Count(rows, P(_)) == Cardinality({i \in 1..Len(rows) : P(rows[i])})
IsCreate(row) == row.id = 0 /\ ~IsBlank(row)
IsDelete(row) == row.id # 0 /\ row.delete

\* the extra rows of a formset, as far as the primary keys left allow
ExtraRows ==
    {new \in [1..MaxNew -> NewRows] :
        Count(new, IsCreate) <= MaxAssets + 1 - nextAsset}

\* the edits of the stored rows, as far as the primary keys left allow
Edits(n) ==
    {e \in [1..n -> EditChoices] :
        Cardinality({i \in 1..n : e[i] = "delete"})
            <= MaxDeleted + 1 - nextDeleted}

\* the formsets a caller can submit for a host: one row per stored asset,
\* then the extra rows
FormSets(h) ==
    LET stored == HostAssets(assets, h)
    IN {[i \in 1..Len(stored) |-> EditRow(stored[i], e[i])] \o new :
            e \in Edits(Len(stored)), new \in ExtraRows}

\* the asset types chosen in the rows that form validation looks at
RowTypes(rows) ==
    {rows[i].asset_type : i \in {j \in 1..Len(rows) :
                                    ~rows[j].delete /\ ~IsBlank(rows[j])}}

\* the primary key a newly saved host gets
NewHost(k) ==
    CHOOSE h \in Hosts \ hosts :
        h.kind = k /\ \A g \in Hosts \ hosts : g.kind = k => h.pk <= g.pk

\* the admin change view (h saved) or add view (h unsaved) with the assets
\* inline: form validation, AssetFormSet.clean, then the host and the rows
\* are saved in one transaction
Submit(h, rows) ==
    /\ LET instance == Instance(h)
           valid == FormsValid(instance, rows)
           errors == Clean(instance, rows)
           saved == IF h.pk = 0 THEN NewHost(h.kind) ELSE h
           db == SaveRows(Db, saved, rows, 1)
       IN IF ~valid
          THEN /\ last' = [op |-> "submit", host |-> h, types |-> RowTypes(rows),
                           result |-> "invalid"]
               /\ UNCHANGED <<hosts, assets, deleted, storage, idVars>>
          ELSE IF Errors(errors) # {}
          THEN /\ last' = [op |-> "submit", host |-> h, types |-> RowTypes(rows),
                           result |-> "violation"]
               /\ UNCHANGED <<hosts, assets, deleted, storage, idVars>>
          ELSE IF db.ok
          THEN /\ last' = [op |-> "submit", host |-> h, types |-> RowTypes(rows),
                           result |-> "saved"]
               /\ hosts' = hosts \cup {saved}
               /\ assets' = db.assets
               /\ deleted' = db.deleted
               /\ storage' = db.storage
               /\ nextAsset' = db.nextAsset
               /\ nextDeleted' = db.nextDeleted
               ELSE \* IntegrityError: the transaction is rolled back, the files
               \* already saved stay in the blob store
               /\ last' = [op |-> "submit", host |-> h, types |-> RowTypes(rows),
                           result |-> "IntegrityError"]
               /\ storage' = db.storage
               /\ nextAsset' = db.nextAsset
               /\ nextDeleted' = db.nextDeleted
                    /\ UNCHANGED <<hosts, assets, deleted>>
    /\ UNCHANGED <<registryVars, deleteCalls, staleDeleted, pending, txn, upload>>

SubmitChange == \E h \in hosts : \E rows \in FormSets(h) : Submit(h, rows)

SubmitAdd ==
    \E k \in Kinds :
        /\ \E h \in Hosts \ hosts : h.kind = k
        /\ \E rows \in ExtraRows : Submit(Unsaved(k), rows)

Next ==
    \/ SetAllowedFor("t2", "video")
    \/ \E t \in Types : ClearRequiredFor(t)
    \/ \E h \in Hosts, t \in Types, act \in BOOLEAN : Attach(h, t, act)
    \/ \E a \in assets : DeleteAsset(a)
    \/ \E d \in deleted \cup staleDeleted : PurgeSignal(d)
    \/ PurgeRow
    \/ \E d \in deleted \cup staleDeleted : RecoverCreate(d)
    \/ RecoverRawDelete
    \/ SubmitChange
    \/ SubmitAdd

Spec == Init /\ [][Next]_vars

\* ===================================================== properties of Spec
\* the asset and the deleted asset carry the same file, type and host
SameFile(a, d) ==
    /\ a.image = d.image
    /\ a.asset_type = d.asset_type
    /\ a.content_type = d.content_type
    /\ a.object_id = d.object_id

ActiveOf(store, t, kind, pk) ==
    {a \in store : /\ a.active
                   /\ a.asset_type = t
                   /\ a.content_type = kind
                   /\ a.object_id = pk}

\* C1: in every reachable state there is at most one Asset with
\* active = true for each (asset_type, host_kind, host_id) triple.
C1_AtMostOneActivePerTriple ==
    \A t \in Types, h \in Hosts :
        Cardinality(ActiveOf(assets, t, h.kind, h.pk)) <= 1

\* C1 witness: an attach of a second active asset of a triple was refused
\* while inactive assets of the same triple are stored beside the active one
C1_Witness ==
    /\ last.op = "attach"
    /\ last.result = "IntegrityError"
    /\ \E a \in assets : a.active

\* rows of the Asset table that a step removes, DeletedAsset rows it creates
RemovedAssets == {a \in assets : \A b \in assets' : b.id # a.id}
CreatedDeleted == {d \in deleted' : \A e \in deleted : e.id # d.id}

\* C2: every step that deletes Asset rows creates exactly one DeletedAsset
\* per deleted Asset, carrying its blob reference, asset_type, host_kind and
\* host_id, removes the Asset rows and invokes no blob deletion.
C2_DeleteMovesFile ==
    [][ /\ (last'.op = "delete") =>
             /\ last'.handle \in RemovedAssets
             /\ assets' = assets \ {last'.handle}
             /\ Cardinality(CreatedDeleted) = 1
        /\ (RemovedAssets # {}) =>
             /\ Cardinality(CreatedDeleted) = Cardinality(RemovedAssets)
             /\ \A a \in RemovedAssets :
                    \E d \in CreatedDeleted : SameFile(a, d)
             /\ \A d \in CreatedDeleted :
                    \E a \in RemovedAssets : SameFile(a, d)
             /\ deleted \subseteq deleted'
             /\ deleteCalls' = deleteCalls
             /\ storage \subseteq storage'
      ]_vars

\* C2 witness: an active asset was deleted and its file is now held by a
\* DeletedAsset, still in the blob store
C2_Witness ==
    /\ last.op = "delete"
    /\ last.handle.active
    /\ last.handle \notin assets
    /\ \E d \in deleted : SameFile(last.handle, d) /\ d.image \in storage

\* C3: recover() on a DeletedAsset creates exactly one new Asset with
\* active = false and the same blob reference, asset_type, host_kind and
\* host_id, removes that DeletedAsset row, returns the new Asset, and never
\* invokes blob deletion.
C3_Recover ==
    [][ /\ (last'.op = "recover_create") =>
             /\ \E n \in assets' :
                    /\ \A a \in assets : a.id # n.id
                    /\ assets' = assets \cup {n}
                    /\ ~n.active
                    /\ SameFile(n, last'.handle)
                    /\ pending'.asset = n
             /\ deleted' = deleted
             /\ deleteCalls' = deleteCalls
             /\ storage' = storage
        /\ (last'.op = "recover") =>
             /\ \A d \in deleted' : d.id # last'.handle.id
             /\ deleted' = deleted \ {last'.handle}
             /\ assets' = assets
             /\ last'.result = pending.asset
             /\ ~last'.result.active
             /\ SameFile(last'.result, last'.handle)
             /\ deleteCalls' = deleteCalls
             /\ storage' = storage
      ]_vars

\* C3 witness: a recover() has returned; its inactive Asset is stored, the
\* DeletedAsset is gone and the file is still in the blob store
C3_Witness ==
    /\ last.op = "recover"
    /\ last.result \in assets
    /\ ~last.result.active
    /\ last.handle \notin deleted
    /\ last.result.image \in storage
    /\ deleteCalls[last.result.image] = 0

\* C4: purging a DeletedAsset deletes its blob from the blob store exactly
\* once, before the row is removed; purge is the only operation that
\* deletes a blob.
C4_Purge ==
    [][ /\ (last'.op = "purge_signal") =>
             /\ deleteCalls' = [deleteCalls EXCEPT
                                  ![last'.handle.image] = @ + 1]
             /\ storage' = storage \ {last'.handle.image}
             /\ deleted' = deleted
        /\ (last'.op = "purge") =>
             /\ pending = [kind |-> "purge", handle |-> last'.handle]
             /\ last'.handle.image \notin storage
             /\ deleteCalls[last'.handle.image] >= 1
             /\ deleteCalls' = deleteCalls
             /\ storage' = storage
             /\ deleted' = deleted \ {last'.handle}
             /\ last'.handle \notin deleted'
        /\ (deleteCalls' # deleteCalls \/ ~(storage \subseteq storage')) =>
             last'.op = "purge_signal"
      ]_vars

\* C4 witness: a purge has completed; the blob was deleted once and the
\* row is gone
C4_Witness ==
    /\ last.op = "purge"
    /\ last.handle \notin deleted
    /\ last.handle.image \notin storage
    /\ deleteCalls[last.handle.image] = 1

\* C5 (as claimed): after an accepted edit set for a saved host has been
\* applied, every asset type required for the host's kind has at least one
\* active Asset attached to the host.
C5_RequiredKeptAfterSave ==
    (last.op = "submit" /\ last.result = "saved" /\ last.host.pk # 0) =>
        \A t \in Types :
            last.host.kind \in required_for[t] =>
                ActiveOf(assets, t, last.host.kind, last.host.pk) # {}

\* typesFor(host kind): the kind is in required_for or in allowed_for
TypesFor(kind) ==
    {t \in Types : kind \in required_for[t] \/ kind \in allowed_for[t]}

\* C9: an asset edit for a host is accepted only if its asset type is in
\* typesFor(host kind); an edit with a type in neither relation is rejected
\* and neither the host nor any row is saved; an edit whose types are all
\* in typesFor (as after the kind is added to allowed_for) is not rejected
\* for its type.
C9_AllowedTypes ==
    [][ (last'.op = "submit") =>
          /\ (last'.result = "invalid")
                <=> ~(last'.types \subseteq TypesFor(last'.host.kind))
          /\ (last'.result = "invalid") =>
                UNCHANGED <<hosts, assets, deleted, storage>>
          /\ (last'.result = "saved") =>
                last'.types \subseteq TypesFor(last'.host.kind)
      ]_vars

\* C9 witness: after video was added to allowed_for of t2, which is not
\* required for it, an edit with an asset of type t2 was saved
C9_Witness ==
    /\ last.op = "submit"
    /\ last.result = "saved"
    /\ "t2" \in last.types
    /\ "video" \in allowed_for["t2"]
    /\ "video" \notin required_for["t2"]
    /\ \E a \in assets : a.asset_type = "t2"

\* ============================================ the queries on their own
\* hosts and stored assets the registry queries are evaluated over
Article1 == [kind |-> "article", pk |-> 1]
QueryHosts == {Video1, Video2, Article1}
StoredUniverse ==
    {AssetRow(1, 1, "t1", TRUE, Video1),
     AssetRow(2, 2, "t1", FALSE, Video1),
     AssetRow(3, 3, "t2", TRUE, Video1),
     AssetRow(4, 4, "t1", TRUE, Video2),
     AssetRow(5, 5, "t1", TRUE, Article1)}

RECURSIVE SeqsUpTo(_, _)
\* the sequences over S of length at most n
SeqsUpTo(S, n) ==
    IF n = 0 THEN {<<>>}
    ELSE LET shorter == SeqsUpTo(S, n - 1)
         IN shorter \cup {Append(q, x) : q \in shorter, x \in S}

\* candidate rows: any asset type or none, active or not
CandidateRows ==
    {Row(0, t, act, FALSE) : t \in Types \cup {NoType}, act \in BOOLEAN}

\* arguments of get_required: None, a model class, an unsaved instance, a
\* stored instance
QueryArgs ==
    {None} \cup {Class(k) : k \in Kinds}
           \cup {Instance(Unsaved(k)) : k \in Kinds}
           \cup {Instance(h) : h \in QueryHosts}

\* the hosts a formset is cleaned for
CleanArgs == {Instance(Video1), Instance(Unsaved("video")), Instance(Article1)}

InitQuery ==
    /\ required_for \in [Types -> SUBSET Kinds]
    /\ allowed_for = [t \in Types |-> {}]
    /\ hosts = QueryHosts
    /\ assets \in {S \in SUBSET StoredUniverse :
                      Cardinality(S) <= MaxStored /\ UniqueActiveAsset(S)}
    /\ deleted = {}
    /\ storage = {a.image : a \in assets}
    /\ deleteCalls = [b \in Blobs |-> 0]
    /\ nextAsset = 1
    /\ nextDeleted = 1
    /\ staleDeleted = {}
    /\ pending = NoPending
    /\ last = [op |-> "init"]
    /\ txn = NoTxn
    /\ upload = NoUpload

\* AssetType.objects.get_required(instance)
QueryRequired(x) ==
    /\ last.op = "init"
    /\ last' = [op |-> "get_required", instance |-> x,
                result |-> GetRequired(x)]
    /\ UNCHANGED <<registryVars, hosts, assets, deleted, storage, deleteCalls,
                   idVars, staleDeleted, pending, txn, upload>>

\* AssetFormSet.clean() of a valid formset with the given cleaned_data
Reconcile(x, cleaned_data) ==
    /\ last.op = "init"
    /\ last' = [op |-> "clean", instance |-> x,
                cleaned_data |-> cleaned_data,
                result |-> Clean(x, cleaned_data)]
    /\ UNCHANGED <<registryVars, hosts, assets, deleted, storage, deleteCalls,
                   idVars, staleDeleted, pending, txn, upload>>

NextQuery ==
    \/ \E x \in QueryArgs : QueryRequired(x)
    \/ \E x \in CleanArgs, cd \in SeqsUpTo(CandidateRows, MaxRows) :
           Reconcile(x, cd)

SpecQuery == InitQuery /\ [][NextQuery]_vars

\* number of rows of the candidate set that are active with asset type t
ActiveRows(cleaned_data, t) ==
    Cardinality({i \in 1..Len(cleaned_data) :
                    cleaned_data[i].active /\ cleaned_data[i].asset_type = t})

\* requiredFor as section 4.2 states it
RequiredFor(x) ==
    IF x = None THEN Types
    ELSE IF x.class \/ x.pk = 0
    THEN {t \in Types : x.kind \in required_for[t]}
    ELSE {t \in Types : /\ x.kind \in required_for[t]
                        /\ ActiveOf(assets, t, x.kind, x.pk) = {}}

\* C6: reconcile returns no set violation if and only if every required
\* type (required = requiredFor(host)) has exactly one candidate row with
\* active = true and no asset type has more than one such row; rows with
\* active = false or without an asset_type do not count.
C6_ReconcileAccepts ==
    (last.op = "clean") =>
        ((Errors(last.result) = {})
            <=> /\ \A t \in RequiredFor(last.instance) :
                       ActiveRows(last.cleaned_data, t) = 1
                /\ \A t \in Types : ActiveRows(last.cleaned_data, t) <= 1)

\* C6 witness: a candidate set is accepted whose required type is covered
\* by one active row next to an inactive row of the same type
C6_Witness ==
    /\ last.op = "clean"
    /\ Errors(last.result) = {}
    /\ \E t \in RequiredFor(last.instance) :
           /\ ActiveRows(last.cleaned_data, t) = 1
           /\ \E i \in 1..Len(last.cleaned_data) :
                  /\ last.cleaned_data[i].asset_type = t
                  /\ ~last.cleaned_data[i].active

\* the candidate set with row i changed to active = false
Deactivated(cleaned_data, i) ==
    [cleaned_data EXCEPT ![i] = [@ EXCEPT !.active = FALSE]]

\* C7 (as claimed): changing one candidate row from active = true to
\* active = false adds no violation, neither missing-required nor
\* duplicate-active.
C7_DeactivateAddsNoViolation ==
    (last.op = "clean") =>
        \A i \in 1..Len(last.cleaned_data) :
            last.cleaned_data[i].active =>
                Errors(Clean(last.instance,
                             Deactivated(last.cleaned_data, i)))
                    \subseteq Errors(last.result)

\* C7 (amended): changing one candidate row from active = true to
\* active = false never adds a duplicate-active violation and never makes
\* a type other than the row's own missing; the row's own type becomes
\* missing exactly when it is required and the row was its only active
\* candidate.
C7_DeactivateAddsNoDuplicate ==
    (last.op = "clean") =>
        \A i \in 1..Len(last.cleaned_data) :
            last.cleaned_data[i].active =>
                LET after == Clean(last.instance,
                                   Deactivated(last.cleaned_data, i))
                    t == last.cleaned_data[i].asset_type
                IN /\ after.duplicated \subseteq last.result.duplicated
                   /\ after.missing \ last.result.missing \subseteq {t}
                   /\ (t \in after.missing \ last.result.missing)
                        <=> /\ t \in RequiredFor(last.instance)
                            /\ ActiveRows(last.cleaned_data, t) = 1

\* C7 witness: a candidate set with a duplicate-active violation that
\* deactivating one row clears
C7_Witness ==
    /\ last.op = "clean"
    /\ last.result.duplicated # {}
    /\ \E i \in 1..Len(last.cleaned_data) :
           /\ last.cleaned_data[i].active
           /\ Errors(Clean(last.instance,
                           Deactivated(last.cleaned_data, i))) = {}

\* C8: requiredFor(None) is all asset types; for a host kind or an
\* instance without identity it is the types with that kind in
\* required_for; for a stored instance it is those types minus the types
\* of which the instance has a stored Asset with active = true.
C8_RequiredFor ==
    (last.op = "get_required") => last.result = RequiredFor(last.instance)

\* C8 witness: a stored instance whose only asset of a required type is
\* inactive still has that type in requiredFor
C8_Witness ==
    /\ last.op = "get_required"
    /\ ~last.instance.class
    /\ last.instance.pk # 0
    /\ \E a \in assets :
           /\ ~a.active
           /\ a.content_type = last.instance.kind
           /\ a.object_id = last.instance.pk
           /\ a.asset_type \in last.result

\* ================================ two concurrent reconcile-and-save
\* Each request runs in one database transaction (READ COMMITTED): it
\* validates against the committed rows, then writes its rows one
\* statement at a time; its writes are invisible to the other transaction
\* until it commits.  A statement that would break unique_active_asset
\* against a committed row fails; against a row the other transaction has
\* written and not yet committed, it waits for that transaction to end.
Other(T) == CHOOSE U \in Txns : U # T

\* the rows the other transaction has written and not committed
Uncommitted(T) ==
    IF txn[Other(T)].pc = "saving" THEN txn[Other(T)].writes ELSE {}

\* the committed rows with a transaction's own writes over them
Overlay(store, writes) ==
    {a \in store : \A w \in writes : w.id # a.id} \cup writes

\* primary keys the rows not yet saved by a transaction will take
Reserved(T) ==
    IF txn[T].pc = "saving"
    THEN Cardinality({j \in txn[T].i..Len(txn[T].rows) :
                         IsCreate(txn[T].rows[j])})
    ELSE 0

\* the formsets of a concurrent request: stored rows kept or toggled,
\* then the extra rows
TxnFormSets(T, h) ==
    LET stored == HostAssets(assets, h)
    IN {[i \in 1..Len(stored) |-> EditRow(stored[i], e[i])] \o new :
            e \in [1..Len(stored) -> {"keep", "toggle"}],
            new \in {n \in [1..MaxNew -> NewRows] :
                        Count(n, IsCreate) + Reserved(Other(T))
                            <= MaxAssets + 1 - nextAsset}}

\* the row a statement of the formset writes, or NoWrite: a stored row is
\* written when its form differs from the instance the form was loaded
\* with (form.has_changed())
NoWrite == [id |-> 0]
RowWrite(initial, h, row) ==
    IF row.id # 0
    THEN LET obj == CHOOSE a \in initial : a.id = row.id
         IN IF row.asset_type # obj.asset_type \/ row.active # obj.active
            THEN [obj EXCEPT !.asset_type = row.asset_type,
                             !.active = row.active]
            ELSE NoWrite
    ELSE IF IsBlank(row) THEN NoWrite
    ELSE AssetRow(nextAsset, nextAsset, row.asset_type, row.active, h)

\* the rows of S that unique_active_asset does not allow beside w
Conflicting(w, S) ==
    {a \in S : a.id # w.id /\ ~UniqueActiveAsset({a, w})}

\* the assets a request activates, with their types: a new active row
\* (the asset is the request's own), or a stored inactive row switched to
\* active
ActivatedBy(T, rows, store) ==
    {[asset_type |-> rows[i].asset_type,
      asset |-> IF rows[i].id = 0 THEN <<"new", T, i>>
                ELSE <<"stored", rows[i].id>>] :
        i \in {j \in 1..Len(rows) :
                 /\ rows[j].active
                 /\ ~IsBlank(rows[j])
                 /\ \/ rows[j].id = 0
                    \/ \E a \in store : a.id = rows[j].id /\ ~a.active}}

InitTxn ==
    /\ required_for = [t \in Types |-> IF t = "t1" THEN {"video"} ELSE {}]
    /\ allowed_for = [t \in Types |-> IF t = "t2" THEN {"video"} ELSE {}]
    /\ hosts = {Video1}
    /\ \E k \in 0..MaxAssets :
          /\ nextAsset = k + 1
          /\ assets \in {S \in SUBSET {AssetRow(id, id, t, act, Video1) :
                                          id \in 1..k, t \in Types,
                                          act \in BOOLEAN} :
                            /\ {a.id : a \in S} = 1..k
                            /\ Cardinality(S) = k
                            /\ UniqueActiveAsset(S)}
    /\ deleted = {}
    /\ storage = {a.image : a \in assets}
    /\ deleteCalls = [b \in Blobs |-> 0]
    /\ nextDeleted = 1
    /\ staleDeleted = {}
    /\ pending = NoPending
    /\ last = [op |-> "init"]
    /\ txn = NoTxn
    /\ upload = NoUpload

txnUnchanged == <<registryVars, hosts, deleted, deleteCalls, nextDeleted,
                  staleDeleted, pending, last, upload>>

\* the request is validated: form validation, then AssetFormSet.clean
TxnBegin(T, h, rows) ==
    /\ txn[T].pc = "idle"
    /\ LET instance == Instance(h)
           result == IF ~FormsValid(instance, rows) THEN "invalid"
                     ELSE IF Errors(Clean(instance, rows)) # {}
                     THEN "violation"
                     ELSE "none"
       IN txn' = [txn EXCEPT ![T] =
                     [pc |-> IF result = "none" THEN "saving" ELSE "done",
                      host |-> h, rows |-> rows, i |-> 1, writes |-> {},
                      initial |-> assets,
                      activated |-> ActivatedBy(T, rows, assets),
                      overlaps |-> txn[Other(T)].pc = "saving",
                      result |-> result]]
    /\ UNCHANGED <<assets, storage, nextAsset>>
    /\ UNCHANGED txnUnchanged

\* formset.save(): the next row of the formset is written
TxnSave(T) ==
    /\ txn[T].pc = "saving"
    /\ txn[T].i <= Len(txn[T].rows)
    /\ LET view == Overlay(assets, txn[T].writes)
           w == RowWrite(txn[T].initial, txn[T].host,
                         txn[T].rows[txn[T].i])
           insert == w.id = nextAsset
           locked == {b.id : b \in Uncommitted(T)}
       IN IF w = NoWrite
          THEN /\ txn' = [txn EXCEPT ![T].i = @ + 1]
               /\ UNCHANGED <<storage, nextAsset>>
          ELSE \* the row lock of an UPDATE, the index entries of rows the
               \* other transaction is writing: wait
               /\ w.id \notin locked
               /\ \A a \in Conflicting(w, view) : a.id \notin locked
               /\ Conflicting(w, Uncommitted(T)) = {}
               /\ IF Conflicting(w, view) # {}
                  THEN \* IntegrityError: the transaction is rolled back
                       txn' = [txn EXCEPT ![T].pc = "done",
                                          ![T].writes = {},
                                          ![T].result = "IntegrityError"]
                  ELSE txn' = [txn EXCEPT
                                  ![T].i = @ + 1,
                                  ![T].writes =
                                      {b \in @ : b.id # w.id} \cup {w}]
               /\ storage' = IF insert THEN storage \cup {w.image}
                             ELSE storage
               /\ nextAsset' = IF insert THEN nextAsset + 1 ELSE nextAsset
    /\ UNCHANGED assets
    /\ UNCHANGED txnUnchanged

\* every row is saved: the transaction commits
TxnCommit(T) ==
    /\ txn[T].pc = "saving"
    /\ txn[T].i > Len(txn[T].rows)
    /\ assets' = Overlay(assets, txn[T].writes)
    /\ txn' = [txn EXCEPT ![T].pc = "done", ![T].writes = {},
                          ![T].result = "saved"]
    /\ UNCHANGED <<storage, nextAsset>>
    /\ UNCHANGED txnUnchanged

NextTxn ==
    \/ \E T \in Txns : \E rows \in TxnFormSets(T, Video1) :
           TxnBegin(T, Video1, rows)
    \/ \E T \in Txns : TxnSave(T)
    \/ \E T \in Txns : TxnCommit(T)

SpecTxn == InitTxn /\ [][NextTxn]_vars

\* a request has passed reconciliation and has ended
Ended(T) ==
    /\ txn[T].pc = "done"
    /\ txn[T].result \in {"saved", "IntegrityError"}

\* the requests ran concurrently: one was validated while the other was
\* between its validation and its commit
Concurrent == txn[1].overlaps \/ txn[2].overlaps

\* both requests activate an asset of type t, each its own
BothActivate(t) ==
    \E x \in txn[1].activated, y \in txn[2].activated :
        /\ x.asset_type = t
        /\ y.asset_type = t
        /\ x.asset # y.asset

\* C10: when two concurrent reconcile-and-save transactions on the same
\* host each pass reconciliation and each activate an asset of the same
\* type, at most one commits and the other ends with the constraint's
\* IntegrityError; no committed state has two active assets of a type for
\* the host.
C10_OneCommits ==
    /\ \A t \in Types :
           Cardinality(ActiveOf(assets, t, Video1.kind, Video1.pk)) <= 1
    /\ (Ended(1) /\ Ended(2) /\ Concurrent) =>
           \A t \in Types :
               BothActivate(t) =>
                   /\ ~(txn[1].result = "saved" /\ txn[2].result = "saved")
                   /\ \E T \in Txns : txn[T].result = "IntegrityError"

\* C10 witness: both requests uploaded a new active asset of type t1 and
\* passed reconciliation; one committed, the other got IntegrityError
C10_Witness ==
    /\ Ended(1) /\ Ended(2)
    /\ Concurrent
    /\ BothActivate("t1")
    /\ txn[1].result = "saved"
    /\ txn[2].result = "IntegrityError"
    /\ Cardinality(ActiveOf(assets, "t1", "video", 1)) = 1

\* ========================================== the Asset / DeletedAsset pairing
\* rows of either table that reference the blob b
AssetsOf(b) == {a \in assets : a.image = b}
DeletedOf(b) == {d \in deleted : d.image = b}

\* C11 (as claimed): delete and recover are atomic for the pairing: in no
\* state that a concurrent request can observe is a blob referenced by both
\* an Asset row and a DeletedAsset row, and the blob a delete or recover
\* step handled is not left in the blob store with no row referencing it.
C11_PairingAtomic ==
    /\ \A b \in Blobs : AssetsOf(b) = {} \/ DeletedOf(b) = {}
    /\ (last.op \in {"delete", "recover_create", "recover"}
            /\ last.handle.image \in storage) =>
          AssetsOf(last.handle.image) \cup DeletedOf(last.handle.image) # {}

\* ===================================================== the content validator
\* largest file size, and largest width and height a media track reports
MaxSize == 2
MaxWidth == 4
MaxHeight == 3

\* Asset.asset_type_id is None
NoAssetType == [slug |-> "none"]
\* a track of the kind is not in MediaInfo.tracks
NoTrack == [kind_of_stream |-> "none"]
\* an attribute the track does not carry: pymediainfo returns None for it
NoFormat == "None"

\* AssetType.FORMAT_CHOICES: the flags of the formats bit field
FORMAT_CHOICES == {"jpeg", "png"}
\* the Format attribute of the General track, as MediaInfo reports it
MediaFormats == {"JPEG", "PNG", "GIF"}

\* str.lower() on the format names
Lower(fmt) ==
    CASE fmt = "JPEG" -> "jpeg"
      [] fmt = "PNG" -> "png"
      [] fmt = "GIF" -> "gif"

\* a float field, kept as the fraction num / den with den > 0
Frac(n, d) == [num |-> n, den |-> d]
Aspects == {Frac(0, 1), Frac(1, 1), Frac(2, 1)}
Accuracies == {Frac(0, 1), Frac(1, 3), Frac(1, 2)}

\* the asset types the validator is run against
AssetTypes ==
    [formats : SUBSET FORMAT_CHOICES,
     min_width : {0, 2},
     min_height : {0, 2},
     aspect : Aspects,
     accuracy : Accuracies,
     max_size : {0, 1}]

\* what MediaInfo.parse finds in a file: its General track and its Video or
\* Image track; width = 0 or height = 0: the track lacks the attribute
GeneralTracks == {NoTrack} \cup [format : MediaFormats \cup {NoFormat}]
VideoTracks ==
    {NoTrack} \cup [width : 0..MaxWidth, height : 0..MaxHeight]

\* the uploaded FieldFile, with the asset type of the Asset it belongs to
Uploads ==
    [name : {"asset.jpg", "asset.png"},
     size : 0..MaxSize,
     general : GeneralTracks,
     video : VideoTracks,
     asset_type : AssetTypes \cup {NoAssetType}]

\* MediaInfoFile.__init__ and its properties
MediaInfoFile(value) == [file |-> value.general, video |-> value.video]

FileFormat(file) ==
    IF file.file = NoTrack THEN NoFormat ELSE file.file.format

FileWidth(file) ==
    IF file.video = NoTrack THEN 0 ELSE file.video.width

FileHeight(file) ==
    IF file.video = NoTrack THEN 0 ELSE file.video.height

\* AssetType.validate_max_size
validate_max_size(asset_type, value) ==
    IF asset_type.max_size # 0 /\ value.size # 0
          /\ asset_type.max_size < value.size
    THEN <<"size">>
    ELSE <<>>

\* the check with the test for an empty flag set left out
validate_format_without_empty_case(asset_type, file) ==
    LET fmt == Lower(FileFormat(file))
    IN IF fmt \notin asset_type.formats THEN <<"format">> ELSE <<>>

\* AssetType.validate_format, for a file whose format is not None
validate_format(asset_type, file) ==
    LET fmt == Lower(FileFormat(file))
    IN IF asset_type.formats # {} /\ fmt \notin asset_type.formats
       THEN <<"format">>
       ELSE <<>>

\* the checks written with >= in place of >
validate_dimensions_not_less(asset_type, file) ==
    (IF FileWidth(file) # 0 /\ asset_type.min_width >= FileWidth(file)
     THEN <<"width">> ELSE <<>>)
    \o (IF FileHeight(file) # 0 /\ asset_type.min_height >= FileHeight(file)
        THEN <<"height">> ELSE <<>>)

\* AssetType.validate_dimensions
validate_dimensions(asset_type, file) ==
    (IF FileWidth(file) # 0 /\ asset_type.min_width > FileWidth(file)
     THEN <<"width">> ELSE <<>>)
    \o (IF FileHeight(file) # 0 /\ asset_type.min_height > FileHeight(file)
        THEN <<"height">> ELSE <<>>)

Abs(x) == IF x < 0 THEN -x ELSE x

\* delta / accuracy as the fraction num / den:
\* |width / height - aspect| / accuracy
Deviation(asset_type, file) ==
    LET w == FileWidth(file)
        h == FileHeight(file)
        a == asset_type.aspect
        c == asset_type.accuracy
    IN Frac(Abs(w * a.den - a.num * h) * c.den, h * a.den * c.num)

\* round() of a non-negative fraction: to the nearest integer; a value half
\* way between two integers goes to the even one, and up or down by the
\* representation error of the floats it was computed from
Round(x, tie_up) ==
    LET q == x.num \div x.den
        r == x.num % x.den
    IN IF 2 * r < x.den THEN q
       ELSE IF 2 * r > x.den THEN q + 1
       ELSE IF tie_up THEN q + 1 ELSE q

\* the check with the tolerance written as delta > accuracy
validate_aspect_strict(asset_type, file, tie_up) ==
    IF FileWidth(file) = 0 \/ FileHeight(file) = 0
          \/ asset_type.aspect.num = 0
    THEN <<>>
    ELSE IF asset_type.accuracy.num = 0
    THEN IF FileWidth(file) * asset_type.aspect.den
                # asset_type.aspect.num * FileHeight(file)
         THEN <<"aspect">> ELSE <<>>
    ELSE LET x == Deviation(asset_type, file)
         IN IF x.num > x.den THEN <<"aspect">> ELSE <<>>

\* AssetType.validate_aspect
validate_aspect(asset_type, file, tie_up) ==
    IF FileWidth(file) = 0 \/ FileHeight(file) = 0
          \/ asset_type.aspect.num = 0
    THEN <<>>
    ELSE IF asset_type.accuracy.num = 0
    THEN IF FileWidth(file) * asset_type.aspect.den
                # asset_type.aspect.num * FileHeight(file)
         THEN <<"aspect">> ELSE <<>>
    ELSE IF Round(Deviation(asset_type, file), tie_up) > 1
    THEN <<"aspect">>
    ELSE <<>>

NoErrors == [raised |-> "none", errors |-> <<>>]

\* the validator stopping at the first check that reports an error
AssetValidator_first_failure(value, tie_up) ==
    IF value.asset_type = NoAssetType
    THEN NoErrors
    ELSE LET asset_type == value.asset_type
             file == MediaInfoFile(value)
         IN IF FileFormat(file) = NoFormat
            THEN [raised |-> "AttributeError", errors |-> <<>>]
            ELSE LET errors == validate_max_size(asset_type, value)
                               \o validate_format(asset_type, file)
                               \o validate_dimensions(asset_type, file)
                               \o validate_aspect(asset_type, file, tie_up)
                 IN IF errors # <<>>
                    THEN [raised |-> "ValidationError",
                          errors |-> <<Head(errors)>>]
                    ELSE NoErrors

\* AssetValidator.__call__: returns, raises ValidationError(errors), or
\* fails in validate_format on file.format.lower() when file.format is None
AssetValidator(value, tie_up) ==
    IF value.asset_type = NoAssetType
    THEN NoErrors
    ELSE LET asset_type == value.asset_type
             file == MediaInfoFile(value)
         IN IF FileFormat(file) = NoFormat
            THEN [raised |-> "AttributeError", errors |-> <<>>]
            ELSE LET errors == validate_max_size(asset_type, value)
                               \o validate_format(asset_type, file)
                               \o validate_dimensions(asset_type, file)
                               \o validate_aspect(asset_type, file, tie_up)
                 IN IF errors # <<>>
                    THEN [raised |-> "ValidationError", errors |-> errors]
                    ELSE NoErrors

InitValidate ==
    /\ required_for = [t \in Types |-> {}]
    /\ allowed_for = [t \in Types |-> {}]
    /\ hosts = {}
    /\ assets = {}
    /\ deleted = {}
    /\ storage = {}
    /\ deleteCalls = [b \in Blobs |-> 0]
    /\ nextAsset = 1
    /\ nextDeleted = 1
    /\ staleDeleted = {}
    /\ pending = NoPending
    /\ last = [op |-> "init"]
    /\ txn = NoTxn
    /\ upload \in Uploads

\* asset.full_clean() runs the validators of Asset.image on the file
Validate(tie_up) ==
    /\ last.op = "init"
    /\ last' = [op |-> "validate", tie_up |-> tie_up,
                result |-> AssetValidator(upload, tie_up)]
    /\ UNCHANGED <<registryVars, hosts, assets, deleted, storage, deleteCalls,
                   idVars, staleDeleted, pending, txn, upload>>

NextValidate == \E tie_up \in BOOLEAN : Validate(tie_up)

SpecValidate == InitValidate /\ [][NextValidate]_vars

\* ============================================ properties of SpecValidate
CheckTags == {"size", "format", "width", "height", "aspect"}

\* the violation of a check is in the list the validator raised
InErrors(tag) ==
    \E i \in 1..Len(last.result.errors) : last.result.errors[i] = tag

\* the file under validation, and whether the decoder found its format
Opened == MediaInfoFile(upload)
HasFormat == FileFormat(Opened) # NoFormat

\* the check fails when it is run on its own on the file under validation
FailsAlone(tag) ==
    CASE tag = "size" ->
            validate_max_size(upload.asset_type, upload) # <<>>
      [] tag = "format" ->
            HasFormat /\ validate_format(upload.asset_type, Opened) # <<>>
      [] tag = "width" ->
            \E i \in 1..Len(validate_dimensions(upload.asset_type, Opened)) :
                validate_dimensions(upload.asset_type, Opened)[i] = "width"
      [] tag = "height" ->
            \E i \in 1..Len(validate_dimensions(upload.asset_type, Opened)) :
                validate_dimensions(upload.asset_type, Opened)[i] = "height"
      [] tag = "aspect" ->
            validate_aspect(upload.asset_type, Opened, last.tie_up) # <<>>

Undecodable ==
    /\ upload.video = NoTrack
    /\ FileFormat(Opened) = NoFormat
    /\ FileWidth(Opened) = 0 /\ FileHeight(Opened) = 0

\* C13 (as claimed): a file that cannot be decoded is always reported by
\* the content validator as a content violation: for every asset type the
\* validator raises a non-empty violation list for it.
C13_DecodeFailureReported ==
    (last.op = "validate" /\ upload.asset_type # NoAssetType /\ Undecodable) =>
        /\ last.result.raised = "ValidationError"
        /\ last.result.errors # <<>>

\* the validator returned or raised ValidationError for a file with an
\* asset type: the list of violations exists
Validated ==
    /\ last.op = "validate"
    /\ upload.asset_type # NoAssetType
    /\ HasFormat

\* the case of the aspect check with a tolerance
AspectWithAccuracy ==
    /\ Validated
    /\ upload.asset_type.aspect.num # 0
    /\ upload.asset_type.accuracy.num > 0
    /\ FileWidth(Opened) # 0
    /\ FileHeight(Opened) # 0

\* C14: for every asset type with aspect # 0 and accuracy > 0 and every
\* image with non-zero width and height, the aspect check passes if and only
\* if round(|width / height - aspect| / accuracy) <= 1: a deviation of
\* exactly 1 x accuracy passes, a deviation of 2 x accuracy fails, every
\* deviation below 1.5 x accuracy passes and every one above it fails.
C14_AspectRounding ==
    AspectWithAccuracy =>
        LET x == Deviation(upload.asset_type, Opened)
        IN /\ ~InErrors("aspect") <=> (Round(x, last.tie_up) <= 1)
           /\ (x.num = x.den) => ~InErrors("aspect")
           /\ (x.num = 2 * x.den) => InErrors("aspect")
           /\ (2 * x.num < 3 * x.den) => ~InErrors("aspect")
           /\ (2 * x.num > 3 * x.den) => InErrors("aspect")

\* C14 witness: a deviation above 1 x accuracy and below 1.5 x accuracy
\* has passed the aspect check
C14_Witness ==
    /\ AspectWithAccuracy
    /\ LET x == Deviation(upload.asset_type, Opened)
       IN x.num > x.den /\ 2 * x.num < 3 * x.den
    /\ ~InErrors("aspect")

\* the file was decoded: it has a format and an image or video track with
\* its width and height
Decoded ==
    /\ Validated
    /\ upload.video # NoTrack
    /\ FileWidth(Opened) > 0
    /\ FileHeight(Opened) > 0

\* C15: for every asset type and decoded file, a width violation is
\* reported if and only if min_width > 0 and the decoded width is less than
\* min_width, and independently a height violation if and only if
\* min_height > 0 and the decoded height is less than min_height; a width
\* equal to min_width (a height equal to min_height) passes.
C15_Dimensions ==
    Decoded =>
        /\ InErrors("width")
              <=> (upload.asset_type.min_width > 0
                   /\ upload.video.width < upload.asset_type.min_width)
        /\ InErrors("height")
              <=> (upload.asset_type.min_height > 0
                   /\ upload.video.height < upload.asset_type.min_height)

\* C15 witness: the width equals min_width and passes while the height is
\* below min_height and is reported
C15_Witness ==
    /\ Decoded
    /\ upload.asset_type.min_width > 0
    /\ upload.video.width = upload.asset_type.min_width
    /\ upload.video.height < upload.asset_type.min_height
    /\ ~InErrors("width")
    /\ InErrors("height")

\* C16: for an asset type with an empty set of formats every format the
\* decoder reports passes the format check; for a non-empty set a violation
\* is reported if and only if the format read from the file content,
\* whatever the file name, is not a member of the set.
C16_Formats ==
    Validated =>
        /\ (upload.asset_type.formats = {}) => ~InErrors("format")
        /\ (upload.asset_type.formats # {}) =>
              (InErrors("format")
                 <=> Lower(upload.general.format)
                        \notin upload.asset_type.formats)

\* C16 witness: a PNG file named asset.jpg is reported for an asset type
\* that allows JPEG only
C16_Witness ==
    /\ Validated
    /\ upload.name = "asset.jpg"
    /\ upload.general.format = "PNG"
    /\ upload.asset_type.formats = {"jpeg"}
    /\ InErrors("format")

\* ================================================ blobs and stale handles
\* C17 (as claimed): after any sequence of delete, purge and recover
\* operations, an operation on the stale handle of an already recovered
\* DeletedAsset included, every Asset row and every DeletedAsset row
\* references a blob that is present in the blob store and no blob is
\* referenced by more than one row.
C17_RowsReferenceLiveBlobs ==
    (pending = NoPending) =>
        /\ \A a \in assets : a.image \in storage
        /\ \A d \in deleted : d.image \in storage
        /\ \A b \in Blobs :
              Cardinality(AssetsOf(b)) + Cardinality(DeletedOf(b)) <= 1

\* ==================================================== row-by-row saving
\* C18 (as claimed): whenever the reconciler accepts the candidate set of a
\* host, saving its rows one at a time in the order of the set never
\* violates unique_active_asset at an intermediate step: the save of an
\* accepted set does not end in IntegrityError.
C18_AcceptedSetSaves ==
    (last.op = "submit" /\ last.result \notin {"invalid", "violation"}) =>
        last.result = "saved"

\* ============================================ delete / recover round trip
\* the host instance an asset is attached to
HostOf(a) == [kind |-> a.content_type, pk |-> a.object_id, class |-> FALSE]

====
